---- MODULE Spec2Model ----
(***************************************************************************)
(* Comisionador 2026: the rule engine (schema loader, pick_bracket,        *)
(* infer_level, rate_for_level) and the session of Comisionador2026App     *)
(* (schema selection, transaction load and commission processing on        *)
(* background threads, results handed back through Tk's after queue).      *)
(*                                                                         *)
(* Money is counted in centavos, so that the float product gross * 1.16    *)
(* is exact on the amounts used (multiples of 25 centavos).  Rates are     *)
(* counted in percent.                                                     *)
(***************************************************************************)
EXTENDS Integers, Sequences, FiniteSets, Bags, TLC

\* ------------------------------------------------------------------ bounds
MaxBound == 3       \* bracket limits in the bracket sheet range over 0..MaxBound
MaxRows == 2        \* rows of the bracket sheet below its header
MaxPrice == 3       \* prices and price thresholds range over 0..MaxPrice
MaxInFlight == 2    \* threads started and not yet applied, at most
MaxOvRows == 2      \* rows of the sheet Hoja2 below its header
MaxVentas == 2      \* rows of the sales sheet
MaxTenure == 8      \* tenure of a coordinator entry, in months, at most
MaxAttainment == 120  \* goal attainment of an entry, in percent, at most

\* ------------------------------------------------------- values and helpers
\* float("nan"): the value pandas and safe_float use for "unknown"
NaN == -1
\* float("inf")
Inf == 1000000
\* None, where a session field or a cell holds no value
None == "None"

isna(v) == v = NaN

Min(S) == CHOOSE x \in S : \A y \in S : x <= y

Max(S) == CHOOSE x \in S : \A y \in S : x >= y

Range(s) == {s[i] : i \in 1..Len(s)}

\* A cell of a worksheet: a number, an empty cell, or a text
NumCell(n) == [t |-> "num", v |-> n]
NoneCell == [t |-> "none", v |-> 0]
StrCell == [t |-> "str", v |-> 0]
\* float(cell) raises on None and on text that is no number
FloatOk(c) == c.t = "num"

\* ------------------------------------------------------------ rule engine
CommissionBracket(li, ls, r4, r3, r2, r1) ==
    [lim_inf |-> li, lim_sup |-> ls, p4 |-> r4, p3 |-> r3, p2 |-> r2, p1 |-> r1]

\* sorted(brackets, key=lambda b: b.lim_inf): stable, ascending
RECURSIVE InsertByLimInf(_, _)
InsertByLimInf(s, b) ==
    IF s = <<>> THEN <<b>>
    ELSE IF b.lim_inf < Head(s).lim_inf THEN <<b>> \o s
    ELSE <<Head(s)>> \o InsertByLimInf(Tail(s), b)

RECURSIVE sorted(_)
sorted(s) ==
    IF s = <<>> THEN <<>>
    ELSE InsertByLimInf(sorted(SubSeq(s, 1, Len(s) - 1)), s[Len(s)])

\* The row loop of _load_commissions: rows is the sheet below the header row,
\* each row a record of the cells of columns B..G.  acc is the list so far.
RECURSIVE ReadBrackets(_, _)
ReadBrackets(rows, acc) ==
    IF rows = <<>> THEN acc
    ELSE LET r == Head(rows) IN
         IF r.li.t = "none" \/ r.ls.t = "none"
         THEN IF acc /= <<>> THEN acc ELSE ReadBrackets(Tail(rows), acc)
         ELSE IF \A c \in {r.li, r.ls, r.p4, r.p3, r.p2, r.p1} : FloatOk(c)
              THEN ReadBrackets(Tail(rows),
                       Append(acc, CommissionBracket(r.li.v, r.ls.v, r.p4.v,
                                                     r.p3.v, r.p2.v, r.p1.v)))
              ELSE ReadBrackets(Tail(rows), acc)

\* _load_commissions on the rows below a found header: the sorted bracket
\* list, or <<>> when the code raises "No pude leer la tabla"
LoadCommissionRows(rows) == sorted(ReadBrackets(rows, <<>>))

\* pick_bracket without its early return for a total below the first bracket
pick_bracket_NoFloor(brackets, total_sales) ==
    IF brackets = <<>> THEN CommissionBracket(0, Inf, 0, 0, 0, 0)
    ELSE LET hits == {i \in 1..Len(brackets) :
                        /\ brackets[i].lim_inf <= total_sales
                        /\ total_sales <= brackets[i].lim_sup}
         IN IF hits /= {} THEN brackets[Min(hits)] ELSE brackets[Len(brackets)]

pick_bracket(brackets, total_sales) ==
    IF brackets = <<>> THEN CommissionBracket(0, Inf, 0, 0, 0, 0)
    ELSE IF total_sales < brackets[1].lim_inf
    THEN CommissionBracket(0, brackets[1].lim_inf, 0, 0, 0, 0)
    ELSE LET hits == {i \in 1..Len(brackets) :
                        /\ brackets[i].lim_inf <= total_sales
                        /\ total_sales <= brackets[i].lim_sup}
         IN IF hits /= {} THEN brackets[Min(hits)] ELSE brackets[Len(brackets)]

\* infer_level with the lowest threshold exclusive
infer_level_Strict(price_to_compare, p4, p3, p2, p1) ==
    IF \E v \in {price_to_compare, p4, p3, p2, p1} : isna(v) THEN 4
    ELSE IF price_to_compare < p4 THEN 4
    ELSE IF price_to_compare <= p3 THEN 3
    ELSE IF price_to_compare <= p2 THEN 2
    ELSE 1

\* infer_level with the middle comparison the wrong way round
infer_level_Flipped(price_to_compare, p4, p3, p2, p1) ==
    IF \E v \in {price_to_compare, p4, p3, p2, p1} : isna(v) THEN 4
    ELSE IF price_to_compare <= p4 THEN 4
    ELSE IF price_to_compare >= p3 THEN 3
    ELSE IF price_to_compare <= p2 THEN 2
    ELSE 1

infer_level(price_to_compare, p4, p3, p2, p1) ==
    IF \E v \in {price_to_compare, p4, p3, p2, p1} : isna(v) THEN 4
    ELSE IF price_to_compare <= p4 THEN 4
    ELSE IF price_to_compare <= p3 THEN 3
    ELSE IF price_to_compare <= p2 THEN 2
    ELSE 1

rate_for_level(bracket, level) ==
    IF level = 1 THEN bracket.p1
    ELSE IF level = 2 THEN bracket.p2
    ELSE IF level = 3 THEN bracket.p3
    ELSE bracket.p4

\* ------------------------------------------------------------ text helpers
\* str(v).strip(), on the texts that occur in the workbooks of the model
strip(s) ==
    CASE s = "ANA " -> "ANA"
      [] s = " " -> ""
      [] s = " tv" -> "tv"
      [] s = " 10" -> "10"
      [] OTHER -> s

\* str.upper() on the same texts
upper(s) ==
    CASE s = "tv" -> "TV"
      [] s = "radio" -> "RADIO"
      [] OTHER -> s

\* NON_COMMISSION_PRODUCT_REGEX.search(s) is not None: the texts with a whole
\* word iva / i.v.a. / impuesto / tax, whatever the case
TaxTexts == {"IVA 16%", "Impuesto", "tax"}

is_tax_line(product_value) ==
    LET s == IF product_value = None THEN "" ELSE strip(product_value)
    IN IF s = "" THEN FALSE ELSE s \in TaxTexts

norm_product_key(v) == IF v = None THEN "" ELSE upper(strip(v))

\* An order cell: None, a text, an int, or a float (v its integer part,
\* whole whether it is integral)
OvNone == [t |-> "none", v |-> 0, s |-> "", whole |-> TRUE]
OvStr(txt) == [t |-> "str", v |-> 0, s |-> txt, whole |-> TRUE]
OvInt(n) == [t |-> "int", v |-> n, s |-> "", whole |-> TRUE]
OvFloat(n, w) == [t |-> "float", v |-> n, s |-> "", whole |-> w]

norm_ov(c) ==
    CASE c.t = "none" -> ""
      [] c.t = "str" -> strip(c.s)
      [] c.t = "int" -> ToString(c.v)
      [] c.t = "float" -> IF c.whole THEN ToString(c.v) ELSE ToString(c.v) \o ".5"

\* The data rows of Hoja2 below the header: pairs of cells (ov, cruce)
RECURSIVE ValidOvs(_)
ValidOvs(rows) ==
    IF rows = <<>> THEN {}
    ELSE LET ov == norm_ov(Head(rows).ov)
             cr == norm_ov(Head(rows).cruce)
         IN (IF ov /= "" /\ cr /= "" THEN {ov, cr} ELSE {}) \cup ValidOvs(Tail(rows))

\* The same loop, taking a row when either of its two cells has a value
RECURSIVE ValidOvs_Either(_)
ValidOvs_Either(rows) ==
    IF rows = <<>> THEN {}
    ELSE LET ov == norm_ov(Head(rows).ov)
             cr == norm_ov(Head(rows).cruce)
         IN (IF ov /= "" \/ cr /= "" THEN {ov, cr} \ {""} ELSE {})
                \cup ValidOvs_Either(Tail(rows))

extract_valid_ovs_Either(wb) ==
    IF ~wb.has_hoja2 THEN [err |-> "SheetNotFound", valid |-> {}]
    ELSE IF ~wb.hoja2_header THEN [err |-> "HeaderNotFound", valid |-> {}]
    ELSE [err |-> "", valid |-> ValidOvs_Either(wb.hoja2)]

\* extract_valid_ovs_from_hoja2 on a workbook: the set, or an error
extract_valid_ovs_from_hoja2(wb) ==
    IF ~wb.has_hoja2 THEN [err |-> "SheetNotFound", valid |-> {}]
    ELSE IF ~wb.hoja2_header THEN [err |-> "HeaderNotFound", valid |-> {}]
    ELSE [err |-> "", valid |-> ValidOvs(wb.hoja2)]

\* ---------------------------------------------------------- schema loader
EmptyMap == [k \in {} |-> 0]

\* d[key] = val on a dict
DictSet(d, key, val) ==
    [k \in DOMAIN d \cup {key} |-> IF k = key THEN val ELSE d[k]]

safe_float(c) == IF c.t = "num" THEN c.v ELSE NaN

\* The row loop of _load_prices: rows is the sheet below the MODELO header
RECURSIVE ReadPrices(_, _)
ReadPrices(rows, price_map) ==
    IF rows = <<>> THEN price_map
    ELSE LET r == Head(rows)
             modelo_s == IF r.modelo = None THEN "" ELSE strip(r.modelo)
         IN IF modelo_s = "" THEN ReadPrices(Tail(rows), price_map)
            ELSE IF \A c \in {r.p4, r.p3, r.p2, r.p1} : c.t = "none"
            THEN ReadPrices(Tail(rows), price_map)
            ELSE ReadPrices(Tail(rows),
                     DictSet(price_map, upper(modelo_s),
                             [p4 |-> safe_float(r.p4), p3 |-> safe_float(r.p3),
                              p2 |-> safe_float(r.p2), p1 |-> safe_float(r.p1)]))

\* The row loop of _load_tipos: rows is the sheet below the ASESORES/TIPO header
RECURSIVE ReadTipos(_, _)
ReadTipos(rows, m) ==
    IF rows = <<>> THEN m
    ELSE LET r == Head(rows)
             a_key == IF r.a = None THEN "" ELSE upper(strip(r.a))
         IN IF a_key = "" THEN ReadTipos(Tail(rows), m)
            ELSE ReadTipos(Tail(rows),
                     DictSet(m, a_key, IF r.t = None THEN "" ELSE strip(r.t)))

\* self.rules is None
NoRules ==
    [schema_file |-> "", comm_brackets |-> <<>>, price_map |-> EmptyMap,
     tipo_map |-> EmptyMap]

\* Rules2026(schema_file).load() on workbook wb: the loaded rules, or the
\* exception raised
Rules2026_load(schema_file, wb) ==
    LET brackets == LoadCommissionRows(wb.comm_rows)
        price_map == ReadPrices(wb.price_rows, EmptyMap)
        tipo_map == IF wb.has_catalogos /\ wb.tipo_header
                    THEN ReadTipos(wb.tipo_rows, EmptyMap) ELSE EmptyMap
        fail(e) == [err |-> e, rules |-> NoRules]
    IN IF ~wb.exists THEN fail("SchemaFileMissing")
       ELSE IF ~wb.has_comisiones THEN fail("SchemaLayoutError")
       ELSE IF ~wb.comm_header THEN fail("SchemaLayoutError")
       ELSE IF brackets = <<>> THEN fail("NoBrackets")
       ELSE IF ~wb.has_listas THEN fail("SchemaLayoutError")
       ELSE IF ~wb.modelo_header THEN fail("SchemaLayoutError")
       ELSE IF price_map = EmptyMap THEN fail("NoProducts")
       ELSE [err |-> "",
             rules |-> [schema_file |-> schema_file, comm_brackets |-> brackets,
                        price_map |-> price_map, tipo_map |-> tipo_map]]

\* -------------------------------------------------- the workbooks on disk
BracketRow(li, ls, r4, r3, r2, r1) ==
    [li |-> li, ls |-> ls, p4 |-> NumCell(r4), p3 |-> NumCell(r3),
     p2 |-> NumCell(r2), p1 |-> NumCell(r1)]

PriceRow(m, c4, c3, c2, c1) == [modelo |-> m, p4 |-> c4, p3 |-> c3, p2 |-> c2, p1 |-> c1]

SchemaShape ==
    [exists |-> TRUE, has_comisiones |-> TRUE, comm_header |-> TRUE, comm_rows |-> <<>>,
     has_listas |-> TRUE, modelo_header |-> TRUE, price_rows |-> <<>>,
     has_catalogos |-> FALSE, tipo_header |-> FALSE, tipo_rows |-> <<>>]

\* The default schema: brackets out of order in the sheet, one product
SchemaDefault ==
    [SchemaShape EXCEPT
       !.comm_rows = << BracketRow(NumCell(301), NumCell(600), 2, 4, 6, 8),
                        BracketRow(NumCell(100), NumCell(300), 1, 2, 3, 4),
                        BracketRow(NoneCell, NoneCell, 0, 0, 0, 0),
                        BracketRow(NumCell(601), NumCell(900), 3, 6, 9, 12) >>,
       !.price_rows = << PriceRow(" tv", NumCell(50), NumCell(100), NumCell(150), NumCell(200)),
                         PriceRow("radio", NoneCell, NoneCell, NoneCell, NoneCell) >>,
       !.has_catalogos = TRUE, !.tipo_header = TRUE,
       !.tipo_rows = << [a |-> "ANA ", t |-> "Senior"] >>]

\* A second schema: brackets that share their boundary, two products
SchemaB ==
    [SchemaShape EXCEPT
       !.comm_rows = << BracketRow(NumCell(0), NumCell(200), 1, 2, 3, 4),
                        BracketRow(StrCell, NumCell(5), 9, 9, 9, 9),
                        BracketRow(NumCell(200), NumCell(400), 5, 6, 7, 8) >>,
       !.price_rows = << PriceRow("TV", NumCell(100), NumCell(120), NumCell(150), NumCell(200)),
                         PriceRow("radio", NumCell(25), NoneCell, NumCell(75), NumCell(100)) >>]

\* A workbook with the bracket sheet but without the sheet NUEVAS LISTAS
SchemaNoListas ==
    [SchemaShape EXCEPT
       !.comm_rows = << BracketRow(NumCell(0), NumCell(200), 1, 2, 3, 4) >>,
       !.has_listas = FALSE]

SchemaFiles == {"default", "esquema_b", "esquema_malo"}

SchemaWorkbook(p) ==
    CASE p = "default" -> SchemaDefault
      [] p = "esquema_b" -> SchemaB
      [] p = "esquema_malo" -> SchemaNoListas
      [] OTHER -> [SchemaShape EXCEPT !.exists = FALSE]

BaseRow(f, a, prod, q, pu, ov) ==
    [Fecha |-> f, Asesor |-> a, Producto |-> prod, Cantidad |-> q,
     PrecioBruto |-> pu, OV |-> ov]

BaseShape ==
    [has_hoja2 |-> TRUE, hoja2_header |-> TRUE, hoja2 |-> <<>>,
     has_ventas |-> TRUE, ventas |-> <<>>]

\* A date cell holds a timestamp, counted in half days: day d at 00:00 is
\* 2 * d, day d at 12:00 is 2 * d + 1
Midnight(d) == 2 * d
Noon(d) == 2 * d + 1
\* Timestamp.date()
DayOf(ts) == ts \div 2

\* Two advisors, two products, and one row for each reason to drop a row
Base1 ==
    [BaseShape EXCEPT
       !.hoja2 = << [ov |-> OvInt(10), cruce |-> OvStr("A-1")],
                    [ov |-> OvFloat(11, TRUE), cruce |-> OvInt(21)],
                    [ov |-> OvInt(12), cruce |-> OvNone] >>,
       !.ventas = <<
         BaseRow(NumCell(Midnight(2)), "ANA", "tv", NumCell(2), NumCell(100), OvInt(10)),
         BaseRow(NumCell(Midnight(1)), "ANA ", "TV", NumCell(1), NumCell(50), OvStr(" 10")),
         BaseRow(NumCell(Noon(3)), "LUIS", "radio", NumCell(1), NumCell(50), OvFloat(11, TRUE)),
         BaseRow(NumCell(Midnight(2)), "LUIS", "IVA 16%", NumCell(1), NumCell(16), OvInt(10)),
         BaseRow(NumCell(Midnight(3)), "LUIS", "TV", NumCell(1), NumCell(100), OvInt(12)),
         BaseRow(StrCell, "ANA", "TV", NumCell(1), NumCell(100), OvInt(10)),
         BaseRow(NumCell(Midnight(3)), "LUIS", "TV", NumCell(0), NumCell(100), OvInt(10)),
         BaseRow(NumCell(Midnight(3)), "LUIS", "TV", StrCell, NumCell(100), OvInt(10)),
         BaseRow(NumCell(Midnight(3)), "LUIS", None, NumCell(1), NumCell(100), OvInt(10)) >>]

\* Only a product that the default schema does not list
Base2 ==
    [BaseShape EXCEPT
       !.hoja2 = << [ov |-> OvInt(10), cruce |-> OvInt(20)] >>,
       !.ventas = <<
         BaseRow(NumCell(Midnight(1)), "LUIS", "radio", NumCell(2), NumCell(50), OvInt(20)) >>]

BaseFiles == {"base_1", "base_2", "base_mala"}

BaseWorkbook(p) ==
    CASE p = "base_1" -> Base1
      [] p = "base_2" -> Base2
      [] OTHER -> [BaseShape EXCEPT !.has_hoja2 = FALSE]

\* ------------------------------------------------------ transaction filter
RECURSIVE SortedSeq(_)
SortedSeq(S) == IF S = {} THEN <<>> ELSE <<Min(S)>> \o SortedSeq(S \ {Min(S)})

\* df["Fecha"].dt.date.unique(), and Series.unique() of a column
Fechas(df) == {DayOf(df[i].Fecha) : i \in 1..Len(df)}
Asesores(df) == {df[i].Asesor : i \in 1..Len(df)}
OVs(df) == {df[i].OV : i \in 1..Len(df)}

\* pd.to_datetime / pd.to_numeric with errors="coerce"
coerce(c) == IF c.t = "num" THEN c.v ELSE NaN

\* FilterBase without the filter on the order id
FilterBase_AnyOrder(ventas, valid_ovs, valid_products) ==
    LET typed == [i \in 1..Len(ventas) |->
                    [Fecha |-> coerce(ventas[i].Fecha),
                     Asesor |-> ventas[i].Asesor,
                     Producto |-> ventas[i].Producto,
                     Cantidad |-> coerce(ventas[i].Cantidad),
                     PrecioBruto |-> coerce(ventas[i].PrecioBruto),
                     OV |-> norm_ov(ventas[i].OV),
                     Producto_key |-> norm_product_key(ventas[i].Producto)]]
        HasDate(r) == ~isna(r.Fecha)
        NotTax(r) == ~is_tax_line(r.Producto)
        Numeric(r) == r.Producto /= None /\ ~isna(r.Cantidad) /\ ~isna(r.PrecioBruto)
        NonZero(r) == r.Cantidad /= 0
        Listed(r) == r.Producto_key \in valid_products
    IN SelectSeq(SelectSeq(SelectSeq(SelectSeq(SelectSeq(
           typed, HasDate), NotTax), Numeric), NonZero), Listed)

\* The filters of _load_base_thread on the rows of the sales sheet
FilterBase(ventas, valid_ovs, valid_products) ==
    LET typed == [i \in 1..Len(ventas) |->
                    [Fecha |-> coerce(ventas[i].Fecha),
                     Asesor |-> ventas[i].Asesor,
                     Producto |-> ventas[i].Producto,
                     Cantidad |-> coerce(ventas[i].Cantidad),
                     PrecioBruto |-> coerce(ventas[i].PrecioBruto),
                     OV |-> norm_ov(ventas[i].OV),
                     Producto_key |-> norm_product_key(ventas[i].Producto)]]
        HasDate(r) == ~isna(r.Fecha)
        NotTax(r) == ~is_tax_line(r.Producto)
        ValidOv(r) == r.OV \in valid_ovs
        Numeric(r) == r.Producto /= None /\ ~isna(r.Cantidad) /\ ~isna(r.PrecioBruto)
        NonZero(r) == r.Cantidad /= 0
        Listed(r) == r.Producto_key \in valid_products
    IN SelectSeq(SelectSeq(SelectSeq(SelectSeq(SelectSeq(SelectSeq(
           typed, HasDate), NotTax), ValidOv), Numeric), NonZero), Listed)

NoAudit ==
    [rows_valid_after_all_filters |-> 0, unique_asesores |-> 0, unique_ovs |-> 0,
     date_min |-> 0, date_max |-> 0]

\* The body of _load_base_thread on an opened workbook, up to the hand-over:
\* what it queues for the interface thread.  rules is self.rules as the
\* thread reads it.
LoadBaseWb(wb, rules) ==
    LET ovs == extract_valid_ovs_from_hoja2(wb)
        df == FilterBase(wb.ventas, ovs.valid, DOMAIN rules.price_map)
        dates == SortedSeq(Fechas(df))
        fail(e) == [kind |-> "load_err", ex |-> e, df |-> <<>>, audit |-> NoAudit,
                    vals |-> <<>>]
    IN IF ovs.err /= "" THEN fail(ovs.err)
       ELSE IF ovs.valid = {} THEN fail("NoValidOrders")
       ELSE IF ~wb.has_ventas THEN fail("SheetNotFound")
       ELSE IF rules = NoRules THEN fail("AttributeError")
       ELSE IF df = <<>> THEN fail("EmptyAfterFiltering")
       ELSE [kind |-> "load_apply", ex |-> "", df |-> df,
             audit |-> [rows_valid_after_all_filters |-> Len(df),
                        unique_asesores |-> Cardinality(Asesores(df)),
                        unique_ovs |-> Cardinality(OVs(df)),
                        date_min |-> dates[1], date_max |-> dates[Len(dates)]],
             vals |-> dates]

\* _load_base_thread(path_xlsx)
LoadBase(path_xlsx, rules) == LoadBaseWb(BaseWorkbook(path_xlsx), rules)

\* ------------------------------------------------------ commission engine
\* x * IVA_FACTOR, IVA_FACTOR = 1.16, on centavos
IVA_FACTOR(x) == (x * 116) \div 100

RECURSIVE SumSeq(_)
SumSeq(s) == IF s = <<>> THEN 0 ELSE Head(s) + SumSeq(Tail(s))

\* Series.fillna("").astype(str).str.strip()
CleanText(a) == IF a = None THEN "" ELSE strip(a)

\* The order of the advisor names as Python compares strings
AsesorRank(a) ==
    CASE a = "" -> 0
      [] a = "ANA" -> 1
      [] a = "ANA " -> 2
      [] a = "LUIS" -> 3
      [] OTHER -> 4

\* pd.to_datetime of a combobox text "%Y-%m-%d": that day at 00:00
to_datetime(d) == Midnight(d)

\* _process_thread, lines 846-856: the date window, swapped when reversed,
\* applied when the checkbox is set.  ini and fin are the days selected.
DateFilter(df, ini, fin, filter_date) ==
    LET d_ini == IF to_datetime(ini) > to_datetime(fin) THEN to_datetime(fin)
                 ELSE to_datetime(ini)
        d_fin == IF to_datetime(ini) > to_datetime(fin) THEN to_datetime(ini)
                 ELSE to_datetime(fin)
        InWindow(r) == r.Fecha >= d_ini /\ r.Fecha <= d_fin
    IN IF filter_date THEN SelectSeq(df, InWindow) ELSE df

\* _process_thread, lines 859-871: clean names, net price, line total, and the
\* left merge with the price table
MergePrices(df, price_map) ==
    [i \in 1..Len(df) |->
        LET r == df[i]
            neto == IVA_FACTOR(r.PrecioBruto)
            listed == r.Producto_key \in DOMAIN price_map
            P(f) == IF listed THEN price_map[r.Producto_key][f] ELSE NaN
        IN [Fecha |-> r.Fecha, Asesor |-> CleanText(r.Asesor), OV |-> r.OV,
            Producto |-> r.Producto, Cantidad |-> r.Cantidad,
            PrecioBruto |-> r.PrecioBruto, PrecioUnitarioNeto |-> neto,
            VentaTotal |-> neto * r.Cantidad,
            Precio4 |-> P("p4"), Precio3 |-> P("p3"), Precio2 |-> P("p2"),
            Precio1 |-> P("p1")]]

\* The rows of one advisor, as groupby("Asesor") groups them
RowsOf(df, a) == SelectSeq(df, LAMBDA r : r.Asesor = a)

\* groupby("Asesor")["Venta Total"].sum() for one advisor
VentaTotalOf(df, a) ==
    SumSeq([i \in 1..Len(RowsOf(df, a)) |-> RowsOf(df, a)[i].VentaTotal])

\* groupby("Asesor")["Total comisión"].sum() for one advisor
TotalComisionOf(df, a) ==
    SumSeq([i \in 1..Len(RowsOf(df, a)) |-> RowsOf(df, a)[i].TotalComision])

\* The rate column summed the same way
ComisionOf(df, a) ==
    SumSeq([i \in 1..Len(RowsOf(df, a)) |-> RowsOf(df, a)[i].Comision])

\* The level loop of _process_thread, lines 904-916
LevelOfRow(v, p4, p3, p2, p1) ==
    IF isna(v) \/ isna(p4) \/ isna(p3) \/ isna(p2) \/ isna(p1) THEN 4
    ELSE IF v <= p4 THEN 4
    ELSE IF v <= p3 THEN 3
    ELSE IF v <= p2 THEN 2
    ELSE 1

\* The rate loop of _process_thread, lines 924-937
RateOfRow(b, lvl) ==
    IF lvl = 1 THEN b.p1
    ELSE IF lvl = 2 THEN b.p2
    ELSE IF lvl = 3 THEN b.p3
    ELSE b.p4

\* The detail table with the bracket picked for each row's own line total
\* instead of its advisor's accumulated sales
Detail_RowBracket(df, comm_brackets, compare_net) ==
    [i \in 1..Len(df) |->
        LET r == df[i]
            b == pick_bracket(comm_brackets, r.VentaTotal)
            pc == IF compare_net THEN r.PrecioUnitarioNeto ELSE r.PrecioBruto
            lvl == LevelOfRow(pc, r.Precio4, r.Precio3, r.Precio2, r.Precio1)
            rate == RateOfRow(b, lvl)
        IN [Fecha |-> r.Fecha, Asesor |-> r.Asesor, OV |-> r.OV,
            Producto |-> r.Producto, Cantidad |-> r.Cantidad,
            PrecioBruto |-> r.PrecioBruto,
            PrecioUnitarioNeto |-> r.PrecioUnitarioNeto,
            VentaTotal |-> r.VentaTotal,
            Precio4 |-> r.Precio4, Precio3 |-> r.Precio3, Precio2 |-> r.Precio2,
            Precio1 |-> r.Precio1,
            Comision |-> rate, TotalComision |-> rate * r.VentaTotal]]

\* _process_thread, lines 873-943: bracket per advisor, level and rate per
\* row, and the detail table
Detail(df, comm_brackets, compare_net) ==
    [i \in 1..Len(df) |->
        LET r == df[i]
            b == pick_bracket(comm_brackets, VentaTotalOf(df, r.Asesor))
            pc == IF compare_net THEN r.PrecioUnitarioNeto ELSE r.PrecioBruto
            lvl == LevelOfRow(pc, r.Precio4, r.Precio3, r.Precio2, r.Precio1)
            rate == RateOfRow(b, lvl)
        IN [Fecha |-> r.Fecha, Asesor |-> r.Asesor, OV |-> r.OV,
            Producto |-> r.Producto, Cantidad |-> r.Cantidad,
            PrecioBruto |-> r.PrecioBruto,
            PrecioUnitarioNeto |-> r.PrecioUnitarioNeto,
            VentaTotal |-> r.VentaTotal,
            Precio4 |-> r.Precio4, Precio3 |-> r.Precio3, Precio2 |-> r.Precio2,
            Precio1 |-> r.Precio1,
            Comision |-> rate, TotalComision |-> rate * r.VentaTotal]]

RECURSIVE SortedByRank(_)
SortedByRank(S) ==
    IF S = {} THEN <<>>
    ELSE LET a == CHOOSE x \in S : \A y \in S : AsesorRank(x) <= AsesorRank(y)
         IN <<a>> \o SortedByRank(S \ {a})

\* Resumen that sums the rate column instead of the commission column
Resumen_SumsRate(out, pdf_tipo, tipo_map) ==
    LET names == SortedByRank(Asesores(out))
    IN [i \in 1..Len(names) |->
          [Asesor |-> names[i], Tipo |-> None,
           VentaTotal |-> VentaTotalOf(out, names[i]),
           TotalComision |-> ComisionOf(out, names[i])]]

\* _process_thread, lines 945-956: one row per advisor, sorted by name, with
\* the Tipo column when it was asked for and the schema has a type map
Resumen(out, pdf_tipo, tipo_map) ==
    LET names == SortedByRank(Asesores(out))
        with_tipo == pdf_tipo /\ tipo_map /= EmptyMap
    IN [i \in 1..Len(names) |->
          [Asesor |-> names[i],
           Tipo |-> IF ~with_tipo THEN None
                    ELSE IF upper(strip(names[i])) \in DOMAIN tipo_map
                    THEN tipo_map[upper(strip(names[i]))] ELSE "",
           VentaTotal |-> VentaTotalOf(out, names[i]),
           TotalComision |-> TotalComisionOf(out, names[i])]]

\* ================================================================ session
VARIABLES
    rules,            \* self.rules (NoRules for None)
    schema_file,      \* self.schema_file
    base_file,        \* self.base_file (None before the first pick)
    base_df_all,      \* self.base_df_all
    audit_counts,     \* self.audit_counts
    out_df,           \* self.out_df
    resumen_df,       \* self.resumen_df
    audit_extra,      \* the extra lines last rendered into txt_audit
    btn_base, btn_process, btn_export,      \* state of the three buttons
    cb_vals,          \* the values offered by the three date comboboxes
    cb_ini, cb_fin, cb_pago,                \* their selections
    var_filter_date, var_compare_net, var_pdf_tipo,
    threads,          \* the background threads that are running (a bag)
    after_queue,      \* callbacks queued with self.after(0, ...)
    fx                \* a direct call of a function (arguments, results), or
                      \* whether history is kept

data == <<rules, schema_file, base_file, base_df_all, audit_counts, out_df,
          resumen_df, audit_extra>>
buttons == <<btn_base, btn_process, btn_export>>
options == <<cb_vals, cb_ini, cb_fin, cb_pago, var_filter_date, var_compare_net,
             var_pdf_tipo>>
workers == <<threads, after_queue>>
vars == <<data, buttons, options, workers, fx>>

\* An optional DataFrame: None, or its rows
NoneDf == [none |-> TRUE, rows |-> <<>>]
DataFrame(rows) == [none |-> FALSE, rows |-> rows]

\* History, kept under SpecHistory only: a load carries the dataset, its
\* counters, the recorded base file and the outputs as they were when the
\* load was requested.  The code has no such field.
NoSnapshot ==
    [base_file |-> None, base_df_all |-> NoneDf, audit_counts |-> NoAudit,
     out_df |-> NoneDf, resumen_df |-> NoneDf]

Snapshot ==
    IF fx.op = "history"
    THEN [base_file |-> base_file, base_df_all |-> base_df_all,
          audit_counts |-> audit_counts, out_df |-> out_df, resumen_df |-> resumen_df]
    ELSE NoSnapshot

NoExtra == [rows_after_date_filter |-> 0, filter_by_date |-> FALSE, compare_price_by |-> ""]

\* The threads are told apart by what they are doing only
Started(t) == threads (+) SetToBag({t})
Ended(t) == threads (-) SetToBag({t})
Moved(t, u) == (threads (-) SetToBag({t})) (+) SetToBag({u})

InFlight == BagCardinality(threads) + Len(after_queue)

\* __init__ after _load_rules_initial: the default schema is there and loads,
\* or it is missing and the session starts without rules
AppInit ==
    /\ schema_file = "default"
    /\ rules \in {Rules2026_load(schema_file, SchemaWorkbook(schema_file)).rules, NoRules}
    /\ base_file = None
    /\ base_df_all = NoneDf
    /\ audit_counts = NoAudit
    /\ out_df = NoneDf
    /\ resumen_df = NoneDf
    /\ audit_extra = NoExtra
    /\ btn_base = "normal"
    /\ btn_process = "disabled"
    /\ btn_export = "disabled"
    /\ cb_vals = <<>>
    /\ cb_ini = 0
    /\ cb_fin = 0
    /\ cb_pago = 0
    /\ var_filter_date = FALSE
    /\ var_compare_net = TRUE
    /\ var_pdf_tipo = FALSE
    /\ threads = EmptyBag
    /\ after_queue = <<>>

Init == AppInit /\ fx = [op |-> "none"]

\* The workbooks on disk do not change during a session: what loading each
\* schema gives, and what loading each base gives under each rule set
SchemaLoads == [p \in SchemaFiles |-> Rules2026_load(p, SchemaWorkbook(p))]

RuleSets == {SchemaLoads[p].rules : p \in SchemaFiles}

BaseLoads == [p \in BaseFiles, r \in RuleSets |-> LoadBase(p, r)]

\* ---- interface thread: the button commands
pick_schema(p) ==
    LET loaded == SchemaLoads[p] IN
    /\ schema_file' = p
    /\ rules' = loaded.rules
    /\ btn_process' = IF loaded.err = "" /\ ~base_df_all.none THEN "normal"
                      ELSE btn_process
    /\ UNCHANGED <<base_file, base_df_all, audit_counts, out_df, resumen_df,
                   audit_extra, btn_base, btn_export, options, workers, fx>>

pick_base(p) ==
    /\ btn_base = "normal"
    /\ InFlight < MaxInFlight
    /\ IF rules = NoRules
       THEN UNCHANGED vars
       ELSE /\ base_file' = p
            /\ btn_base' = "disabled"
            /\ btn_process' = "disabled"
            /\ btn_export' = "disabled"
            /\ threads' = Started([kind |-> "load", pc |-> "start", path |-> p,
                                        df |-> <<>>, before |-> Snapshot])
            /\ UNCHANGED <<rules, schema_file, base_df_all, audit_counts, out_df,
                           resumen_df, audit_extra, options, after_queue, fx>>

process_async ==
    /\ btn_process = "normal"
    /\ InFlight < MaxInFlight
    /\ IF base_df_all.none \/ rules = NoRules
       THEN UNCHANGED vars
       ELSE /\ btn_process' = "disabled"
            /\ btn_export' = "disabled"
            /\ threads' = Started([kind |-> "process", pc |-> "start", path |-> "",
                                        df |-> <<>>, before |-> NoSnapshot])
            /\ UNCHANGED <<data, btn_base, options, after_queue, fx>>

\* ---- background threads
\* _process_thread.ui_err, as queued by the except clause
ProcessErr(e) == [cb |-> [kind |-> "process_err", ex |-> e], before |-> NoSnapshot]

\* _load_base_thread: reads the workbook and self.rules.price_map, then queues
\* ui_apply or ui_err
LoadBaseThread(t) ==
    /\ t.kind = "load"
    /\ after_queue' = Append(after_queue, [cb |-> BaseLoads[t.path, rules],
                                             before |-> t.before])
    /\ threads' = Ended(t)
    /\ UNCHANGED <<data, buttons, options, fx>>

\* History, kept under SpecOptions only: a run carries the value of the date
\* checkbox that it read and its locals d_ini and d_fin.  The code keeps
\* neither beyond the thread.
RunOptions ==
    IF fx.op = "options"
    THEN [filter_date |-> var_filter_date,
          d_ini |-> Min({to_datetime(cb_ini), to_datetime(cb_fin)}),
          d_fin |-> Max({to_datetime(cb_ini), to_datetime(cb_fin)})]
    ELSE NoSnapshot

\* _process_thread, lines 843-856: copy of the dataset and the date filter
ProcessThreadDates(t) ==
    LET df == DateFilter(base_df_all.rows, cb_ini, cb_fin, var_filter_date) IN
    /\ t.kind = "process"
    /\ t.pc = "start"
    /\ IF df = <<>>
       THEN /\ after_queue' = Append(after_queue,
                                  ProcessErr("EmptyAfterDateFilter"))
            /\ threads' = Ended(t)
       ELSE /\ threads' = Moved(t, [t EXCEPT !.pc = "rates", !.df = df,
                                              !.before = RunOptions])
            /\ UNCHANGED after_queue
    /\ UNCHANGED <<data, buttons, options, fx>>

\* _process_thread working on self.base_df_all itself instead of a copy: the
\* cleaned advisor names are written into the session's dataset
ProcessThreadRates_InPlace(t) ==
    /\ t.kind = "process"
    /\ t.pc = "rates"
    /\ base_df_all' = DataFrame([i \in 1..Len(base_df_all.rows) |->
                          [base_df_all.rows[i] EXCEPT !.Asesor = CleanText(@)]])
    /\ IF rules = NoRules
       THEN after_queue' = Append(after_queue, ProcessErr("AttributeError"))
       ELSE LET out == Detail(MergePrices(t.df, rules.price_map),
                              rules.comm_brackets, var_compare_net)
                resumen == Resumen(out, var_pdf_tipo, rules.tipo_map)
            IN after_queue' = Append(after_queue,
                   [cb |-> [kind |-> "process_apply", out |-> out,
                            resumen |-> resumen, rows |-> Len(t.df),
                            compare_net |-> var_compare_net],
                    before |-> t.before])
    /\ threads' = Ended(t)
    /\ UNCHANGED <<rules, schema_file, base_file, audit_counts, out_df, resumen_df,
                   audit_extra, buttons, options, fx>>

\* _process_thread, lines 858-975: totals, the merge with the price table,
\* brackets, levels, rates, detail and summary, then queues ui_apply.  The
\* reads of self.rules (lines 867, 875, 951) and of the two checkboxes (lines
\* 878, 951) are taken at one instant.
ProcessThreadRates(t) ==
    /\ t.kind = "process"
    /\ t.pc = "rates"
    /\ IF rules = NoRules
       THEN after_queue' = Append(after_queue, ProcessErr("AttributeError"))
       ELSE LET out == Detail(MergePrices(t.df, rules.price_map),
                              rules.comm_brackets, var_compare_net)
                resumen == Resumen(out, var_pdf_tipo, rules.tipo_map)
            IN after_queue' = Append(after_queue,
                   [cb |-> [kind |-> "process_apply", out |-> out,
                            resumen |-> resumen, rows |-> Len(t.df),
                            compare_net |-> var_compare_net],
                    before |-> t.before])
    /\ threads' = Ended(t)
    /\ UNCHANGED <<data, buttons, options, fx>>

\* ---- interface thread: the callbacks queued by the threads, in order
\* _load_base_thread.ui_apply
LoadUiApply ==
    /\ after_queue /= <<>>
    /\ Head(after_queue).cb.kind = "load_apply"
    /\ LET cb == Head(after_queue).cb IN
       /\ base_df_all' = DataFrame(cb.df)
       /\ audit_counts' = cb.audit
       /\ cb_vals' = cb.vals
       /\ cb_ini' = cb.vals[1]
       /\ cb_fin' = cb.vals[Len(cb.vals)]
       /\ cb_pago' = cb.vals[Len(cb.vals)]
    /\ out_df' = NoneDf
    /\ resumen_df' = NoneDf
    /\ audit_extra' = NoExtra
    /\ btn_process' = "normal"
    /\ btn_base' = "normal"
    /\ after_queue' = Tail(after_queue)
    /\ UNCHANGED <<rules, schema_file, base_file, btn_export, var_filter_date,
                   var_compare_net, var_pdf_tipo, threads, fx>>

\* _load_base_thread.ui_err
LoadUiErr ==
    /\ after_queue /= <<>>
    /\ Head(after_queue).cb.kind = "load_err"
    /\ btn_base' = "normal"
    /\ btn_process' = "disabled"
    /\ btn_export' = "disabled"
    /\ after_queue' = Tail(after_queue)
    /\ UNCHANGED <<data, options, threads, fx>>

\* _process_thread.ui_apply
ProcessUiApply ==
    /\ after_queue /= <<>>
    /\ Head(after_queue).cb.kind = "process_apply"
    /\ LET cb == Head(after_queue).cb IN
       /\ out_df' = DataFrame(cb.out)
       /\ resumen_df' = DataFrame(cb.resumen)
       /\ audit_extra' = [rows_after_date_filter |-> cb.rows,
                          filter_by_date |-> var_filter_date,
                          compare_price_by |-> IF cb.compare_net THEN "NETO" ELSE "BRUTO"]
    /\ btn_export' = "normal"
    /\ btn_process' = "normal"
    /\ after_queue' = Tail(after_queue)
    /\ fx' = IF fx.op = "options" THEN [fx EXCEPT !.used = Head(after_queue).before]
             ELSE fx
    /\ UNCHANGED <<rules, schema_file, base_file, base_df_all, audit_counts,
                   btn_base, options, threads>>

\* _process_thread.ui_err
ProcessUiErr ==
    /\ after_queue /= <<>>
    /\ Head(after_queue).cb.kind = "process_err"
    /\ btn_process' = "normal"
    /\ btn_export' = "disabled"
    /\ after_queue' = Tail(after_queue)
    /\ UNCHANGED <<data, btn_base, options, threads, fx>>

Next ==
    \/ \E p \in SchemaFiles : pick_schema(p)
    \/ \E p \in BaseFiles : pick_base(p)
    \/ process_async
    \/ \E t \in BagToSet(threads) : LoadBaseThread(t)
    \/ \E t \in BagToSet(threads) : ProcessThreadDates(t)
    \/ \E t \in BagToSet(threads) : ProcessThreadRates(t)
    \/ LoadUiApply
    \/ LoadUiErr
    \/ ProcessUiApply
    \/ ProcessUiErr

Spec == Init /\ [][Next]_vars

\* The same session, with the history of each load kept
InitHistory == AppInit /\ fx = [op |-> "history"]

SpecHistory == InitHistory /\ [][Next]_vars

\* ---- process runs on a loaded session
\* The sessions with a dataset loaded and no worker outstanding: base p was
\* loaded under schema sp0, schema sp was selected since (its load may have
\* failed), and the option widgets stand as the user left them
InitRuns ==
    /\ \E p \in BaseFiles, sp0 \in SchemaFiles, sp \in SchemaFiles :
         LET load == BaseLoads[p, SchemaLoads[sp0].rules] IN
         /\ load.kind = "load_apply"
         /\ schema_file = sp
         /\ rules = SchemaLoads[sp].rules
         /\ base_file = p
         /\ base_df_all = DataFrame(load.df)
         /\ audit_counts = load.audit
         /\ cb_vals = load.vals
         /\ cb_ini \in Range(load.vals)
         /\ cb_fin \in Range(load.vals)
         /\ cb_pago = load.vals[Len(load.vals)]
    /\ out_df = NoneDf
    /\ resumen_df = NoneDf
    /\ audit_extra = NoExtra
    /\ btn_base = "normal"
    /\ btn_process = "normal"
    /\ btn_export = "disabled"
    /\ var_filter_date \in BOOLEAN
    /\ var_compare_net \in BOOLEAN
    /\ var_pdf_tipo \in BOOLEAN
    /\ threads = EmptyBag
    /\ after_queue = <<>>
    /\ fx = [op |-> "runs"]

NextRuns ==
    \/ process_async
    \/ \E t \in BagToSet(threads) : ProcessThreadDates(t)
    \/ \E t \in BagToSet(threads) : ProcessThreadRates(t)
    \/ ProcessUiApply
    \/ ProcessUiErr

SpecRuns == InitRuns /\ [][NextRuns]_vars

\* ---- the option widgets and the export, on a loaded session
\* chk_filter_date: a click inverts the variable
toggle_filter_date ==
    /\ var_filter_date' = ~var_filter_date
    /\ UNCHANGED <<data, buttons, cb_vals, cb_ini, cb_fin, cb_pago, var_compare_net,
                   var_pdf_tipo, workers, fx>>

\* cb_ini, cb_fin: the user selects one of the values offered (readonly)
select_ini(d) ==
    /\ d \in Range(cb_vals)
    /\ cb_ini' = d
    /\ UNCHANGED <<data, buttons, cb_vals, cb_fin, cb_pago, var_filter_date,
                   var_compare_net, var_pdf_tipo, workers, fx>>

select_fin(d) ==
    /\ d \in Range(cb_vals)
    /\ cb_fin' = d
    /\ UNCHANGED <<data, buttons, cb_vals, cb_ini, cb_pago, var_filter_date,
                   var_compare_net, var_pdf_tipo, workers, fx>>

NoPdf == [written |-> FALSE]

\* export_pdf with a file chosen: the document written, fx.pdf, is kept as the
\* two dates of its title, its payment date and whether it has a Tipo column;
\* its table is the summary held
export_pdf ==
    /\ btn_export = "normal"
    /\ IF resumen_df.none
       THEN UNCHANGED vars
       ELSE /\ fx' = [fx EXCEPT !.pdf =
                        [written |-> TRUE,
                         fecha_ini |-> to_datetime(cb_ini),
                         fecha_fin |-> to_datetime(cb_fin),
                         fecha_pago |-> to_datetime(cb_pago),
                         incluir_tipo |-> var_pdf_tipo]]
            /\ UNCHANGED <<data, buttons, options, workers>>

\* A session with a dataset loaded, the widgets as the load's ui_apply and
\* __init__ set them, no document written yet
InitOptions ==
    /\ \E p \in BaseFiles, sp0 \in SchemaFiles, sp \in SchemaFiles :
         LET load == BaseLoads[p, SchemaLoads[sp0].rules] IN
         /\ load.kind = "load_apply"
         /\ schema_file = sp
         /\ rules = SchemaLoads[sp].rules
         /\ base_file = p
         /\ base_df_all = DataFrame(load.df)
         /\ audit_counts = load.audit
         /\ cb_vals = load.vals
         /\ cb_ini = load.vals[1]
         /\ cb_fin = load.vals[Len(load.vals)]
         /\ cb_pago = load.vals[Len(load.vals)]
    /\ out_df = NoneDf
    /\ resumen_df = NoneDf
    /\ audit_extra = NoExtra
    /\ btn_base = "normal"
    /\ btn_process = "normal"
    /\ btn_export = "disabled"
    /\ var_filter_date = FALSE
    /\ var_compare_net = TRUE
    /\ var_pdf_tipo = FALSE
    /\ threads = EmptyBag
    /\ after_queue = <<>>
    /\ fx = [op |-> "options", used |-> NoSnapshot, pdf |-> NoPdf]

NextOptions ==
    \/ toggle_filter_date
    \/ \E d \in Range(cb_vals) : select_ini(d)
    \/ \E d \in Range(cb_vals) : select_fin(d)
    \/ process_async
    \/ \E t \in BagToSet(threads) : ProcessThreadDates(t)
    \/ \E t \in BagToSet(threads) : ProcessThreadRates(t)
    \/ ProcessUiApply
    \/ ProcessUiErr
    \/ export_pdf

SpecOptions == InitOptions /\ [][NextOptions]_vars

\* ================================== direct calls of the rule engine
\* The session stays as constructed while a function is called directly
Idle == AppInit /\ rules = NoRules

\* Bracket sheets: every choice of limits in 0..MaxBound for up to MaxRows
\* rows, a row with an empty limit, a row with a text for a limit; row i
\* carries the rates 4i-3 .. 4i, so that every row can be told from the others
LimitPairs ==
    {<<NumCell(a), NumCell(b)>> : a \in 0..MaxBound, b \in 0..MaxBound}
        \cup {<<NoneCell, NumCell(0)>>, <<StrCell, NumCell(0)>>}

BracketSheets == UNION {[1..n -> LimitPairs] : n \in 1..MaxRows}

SheetRows(sh) ==
    [i \in 1..Len(sh) |->
        BracketRow(sh[i][1], sh[i][2], 4 * i - 3, 4 * i - 2, 4 * i - 1, 4 * i)]

InitBracket ==
    /\ Idle
    /\ fx \in {[op |-> "pick_bracket", pc |-> "sheet", rows |-> SheetRows(sh),
                total_sales |-> t, brackets |-> <<>>,
                picked |-> CommissionBracket(0, 0, 0, 0, 0, 0)] :
               sh \in BracketSheets, t \in 0..(MaxBound + 1)}

\* Rules2026._load_commissions on the sheet
CallLoadCommissions ==
    /\ fx.pc = "sheet"
    /\ LET brackets == LoadCommissionRows(fx.rows) IN
       fx' = [fx EXCEPT !.brackets = brackets,
                        !.pc = IF brackets = <<>> THEN "raised" ELSE "loaded"]
    /\ UNCHANGED <<data, buttons, options, workers>>

\* pick_bracket(self.rules.comm_brackets, total)
CallPickBracket ==
    /\ fx.pc = "loaded"
    /\ fx' = [fx EXCEPT !.picked = pick_bracket(fx.brackets, fx.total_sales),
                        !.pc = "done"]
    /\ UNCHANGED <<data, buttons, options, workers>>

NextBracket == CallLoadCommissions \/ CallPickBracket

SpecBracket == InitBracket /\ [][NextBracket]_vars

\* Sheets Hoja2: up to MaxOvRows rows below the header, each cell empty, a
\* blank text, a padded text, a text, an int, a whole float or another float
OvCells ==
    {OvNone, OvStr(" "), OvStr(" 10"), OvStr("A-1"), OvInt(10), OvFloat(10, TRUE),
     OvFloat(11, FALSE)}

Hoja2Sheets ==
    UNION {[1..n -> [ov : OvCells, cruce : OvCells]] : n \in 1..MaxOvRows}

InitOvs ==
    /\ Idle
    /\ fx \in {[op |-> "extract_valid_ovs", pc |-> "sheet",
                wb |-> [BaseShape EXCEPT !.hoja2 = sh, !.hoja2_header = h],
                err |-> "", valid |-> {}] :
               sh \in Hoja2Sheets, h \in BOOLEAN}

\* extract_valid_ovs_from_hoja2(path_xlsx)
CallExtractValidOvs ==
    /\ fx.pc = "sheet"
    /\ LET got == extract_valid_ovs_from_hoja2(fx.wb) IN
       fx' = [fx EXCEPT !.err = got.err, !.valid = got.valid,
                        !.pc = IF got.err = "" THEN "done" ELSE "raised"]
    /\ UNCHANGED <<data, buttons, options, workers>>

NextOvs == CallExtractValidOvs

SpecOvs == InitOvs /\ [][NextOvs]_vars

\* The coordinator calculator: the coordinator's rate, in percent, for an
\* entry with the given tenure in months and attainment in percent
coordinator_rate_NoTenure(tenure_months, attainment) ==
    IF attainment < 80 THEN 20
    ELSE IF attainment < 100 THEN 30
    ELSE 40

coordinator_rate(tenure_months, attainment) ==
    IF tenure_months <= 5 THEN 30
    ELSE IF attainment < 80 THEN 20
    ELSE IF attainment < 100 THEN 30
    ELSE 40

InitCoordinator ==
    /\ Idle
    /\ fx \in {[op |-> "coordinator_rate", pc |-> "args", tenure_months |-> m,
                attainment |-> a, coordinator_rate |-> 0] :
               m \in 0..MaxTenure, a \in 0..MaxAttainment}

\* One entry of the calculator
CallCoordinatorRate ==
    /\ fx.pc = "args"
    /\ fx' = [fx EXCEPT !.coordinator_rate = coordinator_rate(fx.tenure_months, fx.attainment),
                        !.pc = "done"]
    /\ UNCHANGED <<data, buttons, options, workers>>

NextCoordinator == CallCoordinatorRate

SpecCoordinator == InitCoordinator /\ [][NextCoordinator]_vars

\* Sales sheets: up to MaxVentas rows, each a row that passes every filter or
\* a row that fails one of them; Hoja2 with a valid pair, or with none
VentasRows ==
    {BaseRow(NumCell(Noon(1)), "ANA", "tv", NumCell(2), NumCell(100), OvInt(10)),
     BaseRow(NumCell(Midnight(2)), "LUIS", "radio", NumCell(1), NumCell(50), OvStr("A-1")),
     BaseRow(StrCell, "ANA", "TV", NumCell(1), NumCell(100), OvInt(10)),
     BaseRow(NumCell(Midnight(2)), "ANA", "IVA 16%", NumCell(1), NumCell(16), OvInt(10)),
     BaseRow(NumCell(Midnight(2)), "ANA", "TV", NumCell(1), NumCell(100), OvInt(12)),
     BaseRow(NumCell(Midnight(2)), "ANA", "TV", StrCell, NumCell(100), OvInt(10)),
     BaseRow(NumCell(Midnight(2)), "ANA", "TV", NumCell(1), StrCell, OvInt(10)),
     BaseRow(NumCell(Midnight(2)), "ANA", None, NumCell(1), NumCell(100), OvInt(10)),
     BaseRow(NumCell(Midnight(2)), "ANA", "TV", NumCell(0), NumCell(100), OvInt(10))}

VentasSheets == UNION {[1..n -> VentasRows] : n \in 1..MaxVentas}

Hoja2Pairs ==
    {<< [ov |-> OvInt(10), cruce |-> OvStr("A-1")], [ov |-> OvInt(12), cruce |-> OvNone] >>,
     << [ov |-> OvInt(12), cruce |-> OvNone] >>}

InitFilter ==
    /\ Idle
    /\ fx \in {[op |-> "load_base", pc |-> "workbook",
                wb |-> [BaseShape EXCEPT !.hoja2 = h, !.ventas = v],
                rules |-> r, queued |-> LoadBaseWb(BaseShape, NoRules)] :
               h \in Hoja2Pairs, v \in VentasSheets, r \in RuleSets}

\* _load_base_thread on the workbook, with self.rules as it reads it
CallLoadBase ==
    /\ fx.pc = "workbook"
    /\ fx' = [fx EXCEPT !.queued = LoadBaseWb(fx.wb, fx.rules), !.pc = "done"]
    /\ UNCHANGED <<data, buttons, options, workers>>

NextFilter == CallLoadBase

SpecFilter == InitFilter /\ [][NextFilter]_vars

\* Prices and thresholds: 0..MaxPrice, or unknown
Prices == 0..MaxPrice \cup {NaN}

InitLevel ==
    /\ Idle
    /\ fx \in {[op |-> "infer_level", pc |-> "args", price |-> a, price2 |-> b,
                p4 |-> t4, p3 |-> t3, p2 |-> t2, p1 |-> t1, level |-> 0, level2 |-> 0] :
               a \in Prices, b \in Prices, t4 \in Prices, t3 \in Prices,
               t2 \in Prices, t1 \in Prices}

\* infer_level on the first price
CallInferLevel ==
    /\ fx.pc = "args"
    /\ fx' = [fx EXCEPT !.level = infer_level(fx.price, fx.p4, fx.p3, fx.p2, fx.p1),
                        !.pc = "one"]
    /\ UNCHANGED <<data, buttons, options, workers>>

\* infer_level on the second price, same thresholds
CallInferLevelAgain ==
    /\ fx.pc = "one"
    /\ fx' = [fx EXCEPT !.level2 = infer_level(fx.price2, fx.p4, fx.p3, fx.p2, fx.p1),
                        !.pc = "done"]
    /\ UNCHANGED <<data, buttons, options, workers>>

NextLevel == CallInferLevel \/ CallInferLevelAgain

SpecLevel == InitLevel /\ [][NextLevel]_vars

\* ================================================================ claims
Known(v) == ~isna(v)

BracketDone == fx.op = "pick_bracket" /\ fx.pc = "done"

Contains(b, total) == b.lim_inf <= total /\ total <= b.lim_sup

LevelDone == fx.op = "infer_level" /\ fx.pc = "done"

\* C1: at most one background operation (a load or a process run) is in
\* flight: from the start of a thread until its result or error has been
\* applied on the interface thread, no second thread is started.
C1_OneOperationInFlight == InFlight <= 1

\* C2: when a transaction load fails, the dataset, its audit counters, the
\* recorded base file and the detail and summary outputs are what they were
\* when the load was requested.
C2_FailedLoadLeavesState ==
    [][LoadUiErr =>
         [base_file |-> base_file', base_df_all |-> base_df_all',
          audit_counts |-> audit_counts', out_df |-> out_df',
          resumen_df |-> resumen_df'] = Head(after_queue).before]_vars

\* C3: when selecting a rule workbook fails, the previously loaded valid rule
\* set and the recorded schema path stay the session's current ones.
C3_FailedSchemaKeepsRules ==
    [][\A p \in SchemaFiles :
         (pick_schema(p) /\ SchemaLoads[p].err /= "" /\ rules /= NoRules)
             => (rules' = rules /\ schema_file' = schema_file)]_vars

\* C4: detail and summary are present together or not at all, and when
\* present the summary has exactly one row per advisor of the detail, each
\* row's sales and commission are the sums over that advisor's detail rows,
\* and the grand totals agree.
SumOf(rows, Keep(_), Col(_)) ==
    LET kept == SelectSeq(rows, Keep)
    IN SumSeq([i \in 1..Len(kept) |-> Col(kept[i])])

C4_DetailSummaryAgree ==
    /\ out_df.none <=> resumen_df.none
    /\ ~out_df.none =>
        LET out == out_df.rows
            res == resumen_df.rows
            All(r) == TRUE
        IN /\ {res[i].Asesor : i \in 1..Len(res)} = {out[j].Asesor : j \in 1..Len(out)}
           /\ \A i, j \in 1..Len(res) : res[i].Asesor = res[j].Asesor => i = j
           /\ \A i \in 1..Len(res) :
                /\ res[i].VentaTotal =
                     SumOf(out, LAMBDA r : r.Asesor = res[i].Asesor, LAMBDA r : r.VentaTotal)
                /\ res[i].TotalComision =
                     SumOf(out, LAMBDA r : r.Asesor = res[i].Asesor, LAMBDA r : r.TotalComision)
           /\ SumOf(res, All, LAMBDA r : r.VentaTotal) = SumOf(out, All, LAMBDA r : r.VentaTotal)
           /\ SumOf(res, All, LAMBDA r : r.TotalComision)
                = SumOf(out, All, LAMBDA r : r.TotalComision)

\* C4 witness: a run over two advisors, one of them with two detail rows and
\* a commission that is not zero, has been applied
C4_Witness ==
    /\ ~out_df.none
    /\ Len(out_df.rows) = 3
    /\ Len(resumen_df.rows) = 2
    /\ \E i \in 1..2 : resumen_df.rows[i].TotalComision > 0

\* C5: for a total strictly below the first bracket's lower bound the
\* bracket returned by pick_bracket has all four rates 0.
C5_BelowFirstBoundAllZero ==
    (BracketDone /\ fx.total_sales < fx.brackets[1].lim_inf) =>
        /\ fx.picked.p4 = 0
        /\ fx.picked.p3 = 0
        /\ fx.picked.p2 = 0
        /\ fx.picked.p1 = 0

\* C5 witness: two brackets loaded, the total below both
C5_Witness ==
    /\ BracketDone
    /\ Len(fx.brackets) = 2
    /\ fx.total_sales < fx.brackets[1].lim_inf
    /\ fx.picked.p1 = 0

\* C6: for every bracket b of the loaded list, a total equal to b's lower
\* bound and a total equal to b's upper bound both select b itself.
C6_BoundarySelectsThatBracket ==
    BracketDone =>
        \A i \in 1..Len(fx.brackets) :
            (fx.total_sales = fx.brackets[i].lim_inf
                \/ fx.total_sales = fx.brackets[i].lim_sup)
            => fx.picked = fx.brackets[i]

\* C7: for a total at least the lowest lower bound and not above every upper
\* bound, the returned bracket is the unique bracket whose interval
\* [lim_inf, lim_sup] contains the total.
C7_UniqueContainingBracket ==
    (/\ BracketDone
     /\ fx.total_sales >= fx.brackets[1].lim_inf
     /\ \E i \in 1..Len(fx.brackets) : fx.total_sales <= fx.brackets[i].lim_sup)
    => /\ Contains(fx.picked, fx.total_sales)
       /\ \A i \in 1..Len(fx.brackets) :
            Contains(fx.brackets[i], fx.total_sales) => fx.brackets[i] = fx.picked

\* C8: for a total strictly greater than every bracket's upper bound the
\* bracket returned is the last one in ascending lower-bound order.
C8_AboveAllClampsToLast ==
    (/\ BracketDone
     /\ \A i \in 1..Len(fx.brackets) : fx.total_sales > fx.brackets[i].lim_sup)
    => fx.picked = fx.brackets[Len(fx.brackets)]

\* C9: infer_level is the clamped step function: 4 when the price or a
\* threshold is unknown; otherwise 4 when price <= tier4-threshold, else 3
\* when price <= tier3-threshold, else 2 when price <= tier2-threshold, else 1.
StepLevel(price) ==
    IF ~Known(price) \/ ~Known(fx.p4) \/ ~Known(fx.p3) \/ ~Known(fx.p2) \/ ~Known(fx.p1)
    THEN 4
    ELSE CASE price <= fx.p4 -> 4
           [] price > fx.p4 /\ price <= fx.p3 -> 3
           [] price > fx.p4 /\ price > fx.p3 /\ price <= fx.p2 -> 2
           [] OTHER -> 1

C9_InferLevelIsStepFunction ==
    LevelDone =>
        /\ fx.level = StepLevel(fx.price)
        /\ fx.level2 = StepLevel(fx.price2)
        /\ (Known(fx.p3) /\ Known(fx.p2) /\ Known(fx.p1) /\ Known(fx.p4)
              /\ fx.price = fx.p4) => fx.level = 4

\* C9 witness: all known, the first price exactly on the tier4-threshold and
\* the second above the tier1-threshold
C9_Witness ==
    /\ LevelDone
    /\ \A v \in {fx.price, fx.price2, fx.p4, fx.p3, fx.p2, fx.p1} : Known(v)
    /\ fx.p4 < fx.p3 /\ fx.p3 <= fx.p2 /\ fx.p2 <= fx.p1
    /\ fx.price = fx.p4 /\ fx.level = 4
    /\ fx.price2 > fx.p1 /\ fx.level2 = 1

\* C10: for four known thresholds in any order and known prices p <= p', the
\* tier number of p' is at most the tier number of p.
C10_InferLevelMonotone ==
    (/\ LevelDone
     /\ \A v \in {fx.price, fx.price2, fx.p4, fx.p3, fx.p2, fx.p1} : Known(v)
     /\ fx.price <= fx.price2)
    => fx.level2 <= fx.level

\* C10 witness: thresholds out of order, the price raised, the tier number
\* strictly lower
C10_Witness ==
    /\ LevelDone
    /\ \A v \in {fx.price, fx.price2, fx.p4, fx.p3, fx.p2, fx.p1} : Known(v)
    /\ fx.p4 > fx.p3
    /\ fx.price < fx.price2
    /\ fx.level2 < fx.level

\* C11: a process run that follows another on the same dataset, rule set,
\* date window and flags installs the same detail (tier, rate and commission
\* of every row) and the same summary as the run before it, and no step of a
\* run changes the session's dataset or its rule set.
C11_RunsAreRepeatable ==
    [][/\ base_df_all' = base_df_all
       /\ rules' = rules
       /\ (ProcessUiApply /\ ~out_df.none)
            => (out_df' = out_df /\ resumen_df' = resumen_df)]_vars

\* C11 witness: a second run has been applied (the first left its outputs and
\* the Export button enabled, the second is about to hand over) on a dataset
\* with an advisor name that the run cleans
C11_Witness ==
    /\ fx.op = "runs"
    /\ ~out_df.none
    /\ after_queue /= <<>>
    /\ Head(after_queue).cb.kind = "process_apply"
    /\ \E i \in 1..Len(base_df_all.rows) : base_df_all.rows[i].Asesor = "ANA "
    /\ \E i \in 1..Len(out_df.rows) : out_df.rows[i].TotalComision > 0

\* C12: an identifier is in the valid-order set if and only if it is the
\* normalized ov or cruce value of a row below the header in which both
\* normalized values are non-empty; a row with only one of the two populated
\* contributes neither value.
OvTexts == {"", "10", "A-1", "11.5", " ", " 10"}

Populated(row) == norm_ov(row.ov) /= "" /\ norm_ov(row.cruce) /= ""

C12_ValidOrdersBothColumns ==
    (fx.op = "extract_valid_ovs" /\ fx.pc = "done") =>
        /\ fx.valid \subseteq OvTexts
        /\ \A x \in OvTexts :
             x \in fx.valid <=>
                \E i \in 1..Len(fx.wb.hoja2) :
                    /\ Populated(fx.wb.hoja2[i])
                    /\ x \in {norm_ov(fx.wb.hoja2[i].ov), norm_ov(fx.wb.hoja2[i].cruce)}

\* C12 witness: one row with both cells populated, one with the order only
\* (a blank text in cruce); the first gives both its values, the second none
C12_Witness ==
    /\ fx.op = "extract_valid_ovs" /\ fx.pc = "done"
    /\ Len(fx.wb.hoja2) = 2
    /\ fx.wb.hoja2[1] = [ov |-> OvFloat(10, TRUE), cruce |-> OvStr("A-1")]
    /\ fx.wb.hoja2[2] = [ov |-> OvFloat(11, FALSE), cruce |-> OvStr(" ")]
    /\ fx.valid = {"10", "A-1"}

\* C13: with tenure <= 5 months the coordinator rate is 30% whatever the
\* attainment; with tenure > 5 months it is 20% for attainment < 0.80, 30% for
\* 0.80 <= attainment < 1.00 and 40% for attainment >= 1.00.
C13_CoordinatorRate ==
    (fx.op = "coordinator_rate" /\ fx.pc = "done") =>
        /\ fx.tenure_months <= 5 => fx.coordinator_rate = 30
        /\ (fx.tenure_months > 5 /\ fx.attainment < 80) => fx.coordinator_rate = 20
        /\ (fx.tenure_months > 5 /\ fx.attainment >= 80 /\ fx.attainment < 100)
             => fx.coordinator_rate = 30
        /\ (fx.tenure_months > 5 /\ fx.attainment >= 100) => fx.coordinator_rate = 40

\* C13 witness: tenure 3 months with attainment 0.50 gives 30%
C13_Witness ==
    /\ fx.op = "coordinator_rate" /\ fx.pc = "done"
    /\ fx.tenure_months = 3
    /\ fx.attainment = 50
    /\ fx.coordinator_rate = 30

\* C14: the detail and summary that the session holds were computed from
\* the session's current dataset and current rule set (under some setting of
\* the date window and the flags): after a successful re-load of the
\* transaction file or of the schema no output of the previous dataset or
\* rule set is held or installed.
ComputedFromSession(ini, fin, filter_date, compare_net, pdf_tipo) ==
    LET out == Detail(MergePrices(DateFilter(base_df_all.rows, ini, fin, filter_date),
                                  rules.price_map),
                      rules.comm_brackets, compare_net)
    IN /\ out_df.rows = out
       /\ resumen_df.rows = Resumen(out, pdf_tipo, rules.tipo_map)

C14_OutputsFromCurrentInputs ==
    (~out_df.none /\ ~resumen_df.none /\ rules /= NoRules /\ ~base_df_all.none) =>
        \E ini \in Range(cb_vals), fin \in Range(cb_vals) :
            \E filter_date \in BOOLEAN, compare_net \in BOOLEAN, pdf_tipo \in BOOLEAN :
                ComputedFromSession(ini, fin, filter_date, compare_net, pdf_tipo)

\* C15: in the output of a run, every row's commission rate is the rate for
\* the row's own tier (infer_level on its net or gross unit price, per the
\* compare flag, against its product's thresholds) in the bracket that
\* pick_bracket returns for the summed line totals of all rows of the same
\* advisor; rows of one advisor share the bracket, and the line commission is
\* rate x line total.
AdvisorSales(out, a) ==
    SumOf(out, LAMBDA r : r.Asesor = a, LAMBDA r : r.VentaTotal)

TierOf(r, compare_net) ==
    infer_level(IF compare_net THEN r.PrecioUnitarioNeto ELSE r.PrecioBruto,
                r.Precio4, r.Precio3, r.Precio2, r.Precio1)

C15_RowRateFromAdvisorBracket ==
    (fx.op = "runs" /\ ~out_df.none) =>
        \A i \in 1..Len(out_df.rows) :
            LET r == out_df.rows[i]
                b == pick_bracket(rules.comm_brackets, AdvisorSales(out_df.rows, r.Asesor))
            IN /\ r.Comision = rate_for_level(b, TierOf(r, var_compare_net))
               /\ r.TotalComision = r.Comision * r.VentaTotal

\* C15 witness: two rows of one advisor in different tiers, paid at
\* different rates of the same bracket, neither zero
C15_Witness ==
    /\ fx.op = "runs" /\ ~out_df.none
    /\ \E i, j \in 1..Len(out_df.rows) :
         /\ out_df.rows[i].Asesor = out_df.rows[j].Asesor
         /\ out_df.rows[i].Comision > out_df.rows[j].Comision
         /\ out_df.rows[j].Comision > 0
         /\ out_df.rows[j].TotalComision > 0

\* C16: a successful load yields exactly the raw rows, in their order and
\* none added, that have a parseable date, a product that is no tax line, a
\* normalized order id in the workbook's valid-order set, a numeric quantity
\* and gross price, a product, a quantity other than zero, and a normalized
\* product key in the price-tier table; when the filter finds no such row the
\* load fails with EmptyAfterFiltering.
Qualifies(row, wb, r) ==
    /\ row.Fecha.t = "num"
    /\ ~is_tax_line(row.Producto)
    /\ norm_ov(row.OV) \in extract_valid_ovs_from_hoja2(wb).valid
    /\ row.Cantidad.t = "num"
    /\ row.PrecioBruto.t = "num"
    /\ row.Producto /= None
    /\ row.Cantidad.v /= 0
    /\ norm_product_key(row.Producto) \in DOMAIN r.price_map

SameRow(kept, row) ==
    /\ kept.Fecha = row.Fecha.v
    /\ kept.Asesor = row.Asesor
    /\ kept.Producto = row.Producto
    /\ kept.Cantidad = row.Cantidad.v
    /\ kept.PrecioBruto = row.PrecioBruto.v
    /\ kept.OV = norm_ov(row.OV)

C17_DatasetProductsArePriced ==
    (~base_df_all.none /\ rules /= NoRules) =>
        \A i \in 1..Len(base_df_all.rows) :
            base_df_all.rows[i].Producto_key \in DOMAIN rules.price_map

\* C18: with date filtering enabled a run keeps exactly the dataset rows
\* dated between the two selected dates, both ends included and the earlier
\* of the two taken as the start whichever selector holds it, so that a row
\* dated on the selected end date is kept; when no row is left the run fails
\* with EmptyAfterDateFilter and installs no output; with date filtering
\* disabled no row is removed.
InSelectedWindow(r) ==
    /\ Min({cb_ini, cb_fin}) <= DayOf(r.Fecha)
    /\ DayOf(r.Fecha) <= Max({cb_ini, cb_fin})

RowsInWindow ==
    IF var_filter_date THEN SelectSeq(base_df_all.rows, InSelectedWindow)
    ELSE base_df_all.rows

C18_DateWindowInclusive ==
    [][/\ ProcessUiApply =>
            /\ Len(out_df'.rows) = Len(RowsInWindow)
            /\ \A k \in 1..Len(RowsInWindow) :
                 /\ out_df'.rows[k].Fecha = RowsInWindow[k].Fecha
                 /\ out_df'.rows[k].OV = RowsInWindow[k].OV
                 /\ out_df'.rows[k].Producto = RowsInWindow[k].Producto
       /\ \A t \in BagToSet(threads) :
            (ProcessThreadDates(t) /\ RowsInWindow = <<>>)
                => after_queue' = Append(after_queue, ProcessErr("EmptyAfterDateFilter"))
       /\ ProcessUiErr => (out_df' = out_df /\ resumen_df' = resumen_df)]_vars

\* C19: after a successful load the bracket list is sorted ascending by
\* lower bound, its intervals are pairwise non-overlapping, and every bracket
\* has lim_inf <= lim_sup, whatever the order and values of the sheet's rows.
C19_LoadedBracketsWellFormed ==
    (fx.op = "pick_bracket" /\ fx.pc \in {"loaded", "done"}) =>
        LET bs == fx.brackets IN
        /\ \A i, j \in 1..Len(bs) : i < j => bs[i].lim_inf <= bs[j].lim_inf
        /\ \A i, j \in 1..Len(bs) : i < j => bs[i].lim_sup < bs[j].lim_inf
        /\ \A i \in 1..Len(bs) : bs[i].lim_inf <= bs[i].lim_sup

\* C20: whenever no background operation is outstanding, the Process button
\* is enabled if and only if the session holds both a loaded dataset and a
\* loaded rule set.
C20_ProcessEnabledIffReady ==
    InFlight = 0 =>
        (btn_process = "normal" <=> (~base_df_all.none /\ rules /= NoRules))

\* C21: under every interleaving of load and process completions the Export
\* button is enabled only if a summary exists; a successful load, which
\* clears the summary, never leaves Export enabled.
C21_ExportOnlyWithSummary ==
    btn_export = "normal" => ~resumen_df.none

\* C22: the options reported for a run are the options the run used: the
\* audit's filter_by_date is the value of the flag with which the run did or
\* did not filter by date, and the date range of an exported document is the
\* ordered window that was applied to the summary exported, also when the
\* checkbox or the selectors are changed during the run or after it.
C22_ReportedOptionsAreUsedOptions ==
    [][/\ ProcessUiApply =>
            audit_extra'.filter_by_date = Head(after_queue).before.filter_date
       /\ (export_pdf /\ ~resumen_df.none /\ fx.used.filter_date) =>
            /\ fx'.pdf.fecha_ini = fx.used.d_ini
            /\ fx'.pdf.fecha_fin = fx.used.d_fin]_vars

====
